---- MODULE Spec2Model ----
(***************************************************************************)
(* Model of agency_dashboard.py: the reconciliation pipeline of the        *)
(* "Agency Coverage & Rate Card Intelligence" dashboard.                   *)
(*                                                                         *)
(* One run of the script is one behaviour: the uploaded files are the      *)
(* inputs, each section of the script is one action, and the script's      *)
(* module-level names (agency_df, ratecard_df, agency_city_spine,          *)
(* spine_rates, final, df) are the variables.                              *)
(*                                                                         *)
(* Representation.                                                         *)
(*   - a text cell is a sequence of one-character strings; the missing     *)
(*     cell (NaN/None) is the value NaN, which is no text;                 *)
(*   - a float cell is an exact fraction [num, den] in lowest terms, the   *)
(*     missing float is NaNF (den = 0).  Rounding of binary floats is not  *)
(*     modelled;                                                           *)
(*   - a data frame is a sequence of rows (records), in index order.       *)
(* Columns the pipeline only carries along (supply_capability,             *)
(* platforms.employer_id, coverage_agency_clean) and the client filter     *)
(* that reads them are left out: no later step of lines 121-186 reads them.*)
(***************************************************************************)
EXTENDS Integers, Sequences, FiniteSets, TLC

VARIABLES
    pc,                 \* position of the run in the script
    agency_file,        \* uploaded coverage CSV  (line 46)
    ratecard_file,      \* uploaded rate-card CSV (line 47)
    agency_df,          \* coverage data frame
    ratecard_df,        \* rate-card data frame
    message,            \* st.info / st.error shown before st.stop()
    coverage_cities,    \* pool of coverage city keys (line 113)
    agency_city_spine,  \* the spine (line 132)
    spine_rates,        \* spine with rate cards attached (line 140)
    final,              \* the enriched table (lines 151-186)
    selection,          \* sidebar widgets: view, selected_city, selected_agency
    df,                 \* the filtered table (lines 203-207)
    export,             \* payload of the "Export Current View" button
    val,                \* helper under test: argument (clean_name / fuzzy_match)
    choices,            \* helper under test: candidate pool of fuzzy_match
    ret                 \* helper under test: returned values, in call order

vars == << pc, agency_file, ratecard_file, agency_df, ratecard_df, message,
           coverage_cities, agency_city_spine, spine_rates, final, selection,
           df, export, val, choices, ret >>

pipeVars == << agency_file, ratecard_file, agency_df, ratecard_df, message,
               coverage_cities, agency_city_spine, spine_rates, final,
               selection, df, export >>

----------------------------------------------------------------------------
(* Cells *)

\* np.nan / None in an object column.
NaN == << "NaN" >>

\* pd.isna / Series.isna on an object cell.
isna(v) == v = NaN

\* A missing float.
NaNF == [num |-> 0, den |-> 0]

\* Series.notna on a float cell.
notnaF(x) == x.den # 0

Abs(n) == IF n < 0 THEN -n ELSE n

RECURSIVE Gcd(_, _)
Gcd(a, b) == IF b = 0 THEN a ELSE Gcd(b, a % b)

\* The float n/d (d > 0) as a fraction in lowest terms.
Frac(n, d) ==
    LET g == Gcd(Abs(n), d) IN [num |-> n \div g, den |-> d \div g]

\* Series subtraction: NaN when either operand is NaN (line 186).
FSub(x, y) ==
    IF notnaF(x) /\ notnaF(y)
    THEN Frac(x.num * y.den - y.num * x.den, x.den * y.den)
    ELSE NaNF

RECURSIVE FSum(_)
FSum(xs) ==
    IF xs = << >> THEN Frac(0, 1)
    ELSE LET h == Head(xs)
             t == FSum(Tail(xs))
         IN Frac(h.num * t.den + t.num * h.den, h.den * t.den)

\* Series.mean(): NaN cells are skipped; no cell left gives NaN.
FMean(xs) ==
    LET ok == SelectSeq(xs, notnaF)
        s  == FSum(ok)
    IN IF ok = << >> THEN NaNF ELSE Frac(s.num, s.den * Len(ok))

----------------------------------------------------------------------------
(* clean_name, lines 18-24 *)

\* str.lower() on the upper-case letters the model's alphabet holds.
LowerOf ==
    [A |-> "a", B |-> "b", C |-> "c", D |-> "d", E |-> "e", F |-> "f",
     G |-> "g", H |-> "h", I |-> "i", J |-> "j", K |-> "k", L |-> "l",
     M |-> "m", N |-> "n", O |-> "o", P |-> "p", Q |-> "q", R |-> "r",
     S |-> "s", T |-> "t", U |-> "u", V |-> "v", W |-> "w", X |-> "x",
     Y |-> "y", Z |-> "z"]

Lower(ch) == IF ch \in DOMAIN LowerOf THEN LowerOf[ch] ELSE ch

\* The character class [a-z0-9 ] of line 22.
KeptChars ==
    { "a", "b", "c", "d", "e", "f", "g", "h", "i", "j", "k", "l", "m", "n",
      "o", "p", "q", "r", "s", "t", "u", "v", "w", "x", "y", "z",
      "0", "1", "2", "3", "4", "5", "6", "7", "8", "9", " " }

\* The class \s of line 23.
SpaceChars == { " ", "\t", "\n" }

IsKept(ch) == ch \in KeptChars

NotSpace(ch) == ch \notin SpaceChars

\* A variant whose line 23 removes the leading whitespace only (a strip()).
clean_name_lstrip(v) ==
    IF isna(v) THEN << >>
    ELSE LET stripped == SelectSeq([i \in 1..Len(v) |-> Lower(v[i])], IsKept)
             lead     == { i \in 1..Len(stripped) :
                             \A j \in 1..i : stripped[j] \in SpaceChars }
         IN SubSeq(stripped, Cardinality(lead) + 1, Len(stripped))

clean_name(v) ==
    IF isna(v) THEN << >>
    ELSE LET lowered  == [i \in 1..Len(v) |-> Lower(v[i])]
             stripped == SelectSeq(lowered, IsKept)
         IN SelectSeq(stripped, NotSpace)

----------------------------------------------------------------------------
(* fuzzy_match, lines 13 and 26-32 *)

FUZZY_THRESHOLD == 85

Max(a, b) == IF a >= b THEN a ELSE b

\* Length of the longest common subsequence: fuzz.ratio is the normalised
\* Indel similarity, whose distance is Len(s) + Len(t) - 2 * LCS.
RECURSIVE LCSLen(_, _)
LCSLen(s, t) ==
    IF s = << >> \/ t = << >> THEN 0
    ELSE IF Head(s) = Head(t) THEN 1 + LCSLen(Tail(s), Tail(t))
    ELSE Max(LCSLen(Tail(s), t), LCSLen(s, Tail(t)))

\* fuzz.ratio(s, t), 0..100, as the exact fraction num/den.
ratio(s, t) ==
    IF Len(s) + Len(t) = 0 THEN [num |-> 100, den |-> 1]
    ELSE [num |-> 200 * LCSLen(s, t), den |-> Len(s) + Len(t)]

ScoreGT(x, y) == x.num * y.den > y.num * x.den

ScoreGE(x, n) == x.num >= n * x.den

\* A variant that keeps the last of several best candidates.
RECURSIVE extractOne_last(_, _, _, _)
extractOne_last(query, pool, i, best) ==
    IF i > Len(pool) THEN best
    ELSE IF best = 0 \/ ~ScoreGT(ratio(query, pool[best]), ratio(query, pool[i]))
         THEN extractOne_last(query, pool, i + 1, i)
         ELSE extractOne_last(query, pool, i + 1, best)

\* process.extractOne(query, pool, scorer=fuzz.ratio): index of the result in
\* the pool, 0 for None.  A candidate replaces the result only when its score
\* is strictly greater.
RECURSIVE extractOne(_, _, _, _)
extractOne(query, pool, i, best) ==
    IF i > Len(pool) THEN best
    ELSE IF best = 0 \/ ScoreGT(ratio(query, pool[i]), ratio(query, pool[best]))
         THEN extractOne(query, pool, i + 1, i)
         ELSE extractOne(query, pool, i + 1, best)

fuzzy_match(name, pool) ==
    IF name = << >> \/ Len(pool) = 0 THEN NaN
    ELSE LET m == extractOne(name, pool, 1, 0)
         IN IF m # 0 /\ ScoreGE(ratio(name, pool[m]), FUZZY_THRESHOLD)
            THEN pool[m]
            ELSE NaN

----------------------------------------------------------------------------
(* The helpers on their own: clean_name and fuzzy_match applied to inputs  *)
(* drawn from bounded sets.                                                *)

\* Longest display name given to clean_name.
MaxNameLen == 3

\* Longest key given to fuzzy_match.
MaxKeyLen == 4

\* A lower-case letter, an upper-case letter, a digit, the space, a
\* punctuation mark and a whitespace character that is not the space.
NameAlphabet == { "a", "B", "7", " ", "-", "\t" }

KeyAlphabet == { "a", "b" }

Texts(alphabet, n) == UNION { [1..k -> alphabet] : k \in 0..n }

\* The keys of the specification's fuzzy-match scenario.
austn   == << "a", "u", "s", "t", "n" >>
austin  == << "a", "u", "s", "t", "i", "n" >>
dallas  == << "d", "a", "l", "l", "a", "s" >>
houston == << "h", "o", "u", "s", "t", "o", "n" >>

FuzzyKeys == Texts(KeyAlphabet, MaxKeyLen)

\* Pools as line 113 builds them (unique().tolist()): no key twice.
FuzzyPools ==
    { << >> } \cup { << k >> : k \in FuzzyKeys }
    \cup { p \in FuzzyKeys \X FuzzyKeys : p[1] # p[2] }

NoMessage == [kind |-> "none", source |-> "", missing |-> << >>]

NoFile == [supplied |-> FALSE, columns |-> { }, rows |-> << >>]

NoSelection == [view |-> "", selected_city |-> << >>, selected_agency |-> << >>]

NoExport == [done |-> FALSE, rows |-> << >>]

\* The pipeline's names before the script binds them.
PipelineIdle ==
    /\ agency_file = NoFile
    /\ ratecard_file = NoFile
    /\ agency_df = << >>
    /\ ratecard_df = << >>
    /\ message = NoMessage
    /\ coverage_cities = << >>
    /\ agency_city_spine = << >>
    /\ spine_rates = << >>
    /\ final = << >>
    /\ selection = NoSelection
    /\ df = << >>
    /\ export = NoExport

InitClean ==
    /\ pc = "clean_name"
    /\ val \in Texts(NameAlphabet, MaxNameLen) \cup { NaN }
    /\ choices = << >>
    /\ ret = << >>
    /\ PipelineIdle

\* key = clean_name(val)
CleanOnce ==
    /\ pc = "clean_name"
    /\ Len(ret) = 0
    /\ ret' = << clean_name(val) >>
    /\ UNCHANGED << pc, val, choices, pipeVars >>

\* clean_name(key), the key normalised again
CleanTwice ==
    /\ pc = "clean_name"
    /\ Len(ret) = 1
    /\ ret' = Append(ret, clean_name(ret[1]))
    /\ UNCHANGED << pc, val, choices, pipeVars >>

NextClean == CleanOnce \/ CleanTwice

SpecClean == InitClean /\ [][NextClean]_vars

InitFuzzy ==
    /\ pc = "fuzzy_match"
    /\ \/ val \in FuzzyKeys /\ choices \in FuzzyPools
       \/ val = austn /\ choices \in { << austin, dallas >>, << houston, dallas >> }
    /\ ret = << >>
    /\ PipelineIdle

\* match = fuzzy_match(val, choices)
FuzzyCall ==
    /\ pc = "fuzzy_match"
    /\ Len(ret) = 0
    /\ ret' = << fuzzy_match(val, choices) >>
    /\ pc' = "returned"
    /\ UNCHANGED << val, choices, pipeVars >>

NextFuzzy == FuzzyCall

SpecFuzzy == InitFuzzy /\ [][NextFuzzy]_vars

----------------------------------------------------------------------------
(* Data-frame operations of the pipeline *)

Range(f) == { f[i] : i \in DOMAIN f }

RECURSIVE Concat(_)
\* pd.concat of a sequence of frames, ignore_index=True.
Concat(frames) ==
    IF frames = << >> THEN << >> ELSE Head(frames) \o Concat(Tail(frames))

Digits == << "0", "1", "2", "3", "4", "5", "6", "7", "8", "9" >>

DigitOf(ch) == CHOOSE d \in 0..9 : Digits[d + 1] = ch

RECURSIVE Decimal(_)
Decimal(text) ==
    IF text = << >> THEN 0
    ELSE 10 * Decimal(SubSeq(text, 1, Len(text) - 1)) + DigitOf(text[Len(text)])

\* pd.to_numeric(cell, errors="coerce") on a cell of the margin column: a
\* decimal numeral gives its value, any other text and the missing cell NaN.
to_numeric(cell) ==
    IF isna(cell) \/ cell = << >> THEN NaNF
    ELSE IF \A i \in 1..Len(cell) : cell[i] \in Range(Digits)
         THEN Frac(Decimal(cell), 1)
         ELSE NaNF

\* Series.unique().tolist(): the distinct values in order of first appearance.
RECURSIVE unique(_)
unique(xs) ==
    IF xs = << >> THEN << >>
    ELSE LET init == unique(SubSeq(xs, 1, Len(xs) - 1))
             last == xs[Len(xs)]
         IN IF last \in Range(init) THEN init ELSE Append(init, last)

\* Lines 78-79: role_category back-filled with NaN when the file has no such
\* column.
with_role_category(rows, columns) ==
    IF "role_category" \notin columns
    THEN [i \in 1..Len(rows) |->
            [agency_name |-> rows[i].agency_name, city |-> rows[i].city,
             role_category |-> NaN]]
    ELSE rows

HasMargin(r) == notnaF(r.agency_margin)

\* Lines 90-91: margins made numeric, rows without a margin dropped.
numeric_margins(rows) ==
    SelectSeq(
        [i \in 1..Len(rows) |->
            [agency_name |-> rows[i].agency_name, venue_city |-> rows[i].venue_city,
             agency_margin |-> to_numeric(rows[i].agency_margin)]],
        HasMargin)

\* Lines 96-97.
clean_agency_df(rows) ==
    [i \in 1..Len(rows) |->
        [agency_name |-> rows[i].agency_name, city |-> rows[i].city,
         role_category |-> rows[i].role_category,
         agency_clean |-> clean_name(rows[i].agency_name),
         city_clean |-> clean_name(rows[i].city)]]

\* Lines 99-100.
clean_ratecard_df(rows) ==
    [i \in 1..Len(rows) |->
        [agency_name |-> rows[i].agency_name, venue_city |-> rows[i].venue_city,
         agency_margin |-> rows[i].agency_margin,
         agency_clean |-> clean_name(rows[i].agency_name),
         city_clean |-> clean_name(rows[i].venue_city)]]

\* Line 113: clean_name never returns NaN, so dropna() drops nothing.
coverage_city_pool(adf) == unique([i \in 1..Len(adf) |-> adf[i].city_clean])

\* Lines 114-116.
match_cities(rdf, pool) ==
    [i \in 1..Len(rdf) |->
        [agency_name |-> rdf[i].agency_name, venue_city |-> rdf[i].venue_city,
         agency_margin |-> rdf[i].agency_margin,
         agency_clean |-> rdf[i].agency_clean, city_clean |-> rdf[i].city_clean,
         coverage_city_clean |-> fuzzy_match(rdf[i].city_clean, pool)]]

RatePairKept(r) == ~isna(r.agency_name) /\ ~isna(r.coverage_city_clean)

\* Lines 121-125: the resolved city key becomes city_clean, venue_city the
\* display city.
rate_pairs(rdf) ==
    LET kept == SelectSeq(rdf, RatePairKept)
    IN [i \in 1..Len(kept) |->
          [agency_name |-> kept[i].agency_name, agency_clean |-> kept[i].agency_clean,
           city_clean |-> kept[i].coverage_city_clean, city |-> kept[i].venue_city]]

CoveragePairKept(r) == ~isna(r.agency_name) /\ ~isna(r.city)

\* Lines 127-130.
coverage_pairs(adf) ==
    LET kept == SelectSeq(adf, CoveragePairKept)
    IN [i \in 1..Len(kept) |->
          [agency_name |-> kept[i].agency_name, agency_clean |-> kept[i].agency_clean,
           city_clean |-> kept[i].city_clean, city |-> kept[i].city]]

SameKey(r, s) == r.agency_clean = s.agency_clean /\ r.city_clean = s.city_clean

\* A variant that compares the display names instead of the keys.
RECURSIVE drop_duplicates_display(_)
drop_duplicates_display(rows) ==
    IF rows = << >> THEN << >>
    ELSE LET init == drop_duplicates_display(SubSeq(rows, 1, Len(rows) - 1))
             last == rows[Len(rows)]
         IN IF \E j \in 1..Len(init) :
                 init[j].agency_name = last.agency_name /\ init[j].city = last.city
            THEN init
            ELSE Append(init, last)

\* Line 134: drop_duplicates(subset=["agency_clean", "city_clean"]) keeps the
\* first row of each key pair.
RECURSIVE drop_duplicates(_)
drop_duplicates(rows) ==
    IF rows = << >> THEN << >>
    ELSE LET init == drop_duplicates(SubSeq(rows, 1, Len(rows) - 1))
             last == rows[Len(rows)]
         IN IF \E j \in 1..Len(init) : SameKey(init[j], last)
            THEN init
            ELSE Append(init, last)

\* Lines 132-135.
build_spine(rdf, adf) ==
    drop_duplicates(Concat(<< rate_pairs(rdf), coverage_pairs(adf) >>))

\* One spine row joined with one rate-card row (columns of the right frame
\* that the left frame has too get the suffix "_rate").
JoinRate(l, r) ==
    [agency_name |-> l.agency_name, agency_clean |-> l.agency_clean,
     city_clean |-> l.city_clean, city |-> l.city,
     agency_name_rate |-> r.agency_name, venue_city |-> r.venue_city,
     agency_margin |-> r.agency_margin,
     coverage_city_clean |-> r.coverage_city_clean]

NoRate ==
    [agency_name |-> NaN, venue_city |-> NaN, agency_margin |-> NaNF,
     coverage_city_clean |-> NaN]

\* Lines 140-146: left join on (agency_clean, city_clean); the right key is
\* the rate card's own city_clean of line 100.
RECURSIVE attach_rates(_, _)
attach_rates(spine, rdf) ==
    IF spine = << >> THEN << >>
    ELSE LET l    == Head(spine)
             hits == SelectSeq(rdf, LAMBDA r : SameKey(l, r))
             rows == IF hits = << >> THEN << JoinRate(l, NoRate) >>
                     ELSE [i \in 1..Len(hits) |-> JoinRate(l, hits[i])]
         IN rows \o attach_rates(Tail(spine), rdf)

\* One row of spine_rates joined with one coverage row (suffix "_coverage").
JoinCoverage(l, r) ==
    [agency_name |-> l.agency_name, agency_clean |-> l.agency_clean,
     city_clean |-> l.city_clean, city |-> l.city,
     agency_name_rate |-> l.agency_name_rate, venue_city |-> l.venue_city,
     agency_margin |-> l.agency_margin,
     coverage_city_clean |-> l.coverage_city_clean,
     agency_name_coverage |-> r.agency_name, city_coverage |-> r.city,
     role_category |-> r.role_category]

NoCoverage == [agency_name |-> NaN, city |-> NaN, role_category |-> NaN]

\* Lines 151-157: left join on (agency_clean, city_clean).
RECURSIVE attach_coverage(_, _)
attach_coverage(left, adf) ==
    IF left = << >> THEN << >>
    ELSE LET l    == Head(left)
             hits == SelectSeq(adf, LAMBDA r : SameKey(l, r))
             rows == IF hits = << >> THEN << JoinCoverage(l, NoCoverage) >>
                     ELSE [i \in 1..Len(hits) |-> JoinCoverage(l, hits[i])]
         IN rows \o attach_coverage(Tail(left), adf)

\* A variant that tests role_category first.
presence_type_rolefirst(margin, role_category) ==
    IF ~isna(role_category) THEN
        IF notnaF(margin) THEN "Rate Card + Coverage" ELSE "Coverage Only"
    ELSE "Unknown"

\* A variant that takes a coverage match as enough for "Coverage Only".
presence_type_anycoverage(margin, role_category) ==
    IF notnaF(margin) /\ ~isna(role_category) THEN "Rate Card + Coverage"
    ELSE IF notnaF(margin) THEN "Rate Card Only"
    ELSE "Coverage Only"

\* Lines 162-174: np.select takes the first condition that holds.
presence_type(margin, role_category) ==
    IF notnaF(margin) /\ ~isna(role_category) THEN "Rate Card + Coverage"
    ELSE IF notnaF(margin) THEN "Rate Card Only"
    ELSE IF ~isna(role_category) THEN "Coverage Only"
    ELSE "Unknown"

WithPresence(r) ==
    [agency_name |-> r.agency_name, agency_clean |-> r.agency_clean,
     city_clean |-> r.city_clean, city |-> r.city,
     agency_name_rate |-> r.agency_name_rate, venue_city |-> r.venue_city,
     agency_margin |-> r.agency_margin,
     coverage_city_clean |-> r.coverage_city_clean,
     agency_name_coverage |-> r.agency_name_coverage,
     city_coverage |-> r.city_coverage, role_category |-> r.role_category,
     presence_type |-> presence_type(r.agency_margin, r.role_category)]

\* Lines 179-185: the mean margin of the rows whose display city (column
\* "city") is the row's, merged back on "city".
city_avg(rows, r) ==
    LET group == SelectSeq(rows, LAMBDA s : s.city = r.city)
    IN FMean([i \in 1..Len(group) |-> group[i].agency_margin])

WithCityAvg(rows, r) ==
    LET avg == city_avg(rows, r)
    IN [agency_name |-> r.agency_name, agency_clean |-> r.agency_clean,
        city_clean |-> r.city_clean, city |-> r.city,
        agency_name_rate |-> r.agency_name_rate, venue_city |-> r.venue_city,
        agency_margin |-> r.agency_margin,
        coverage_city_clean |-> r.coverage_city_clean,
        agency_name_coverage |-> r.agency_name_coverage,
        city_coverage |-> r.city_coverage, role_category |-> r.role_category,
        presence_type |-> r.presence_type,
        city_avg_margin |-> avg,
        margin_vs_city_avg |-> FSub(r.agency_margin, avg)]

All == << "A", "l", "l" >>

\* Lines 203-207 (the client filter of lines 208-209 is not modelled).
apply_filters(rows, sel) ==
    LET byCity   == IF All \in Range(sel.selected_city) THEN rows
                    ELSE SelectSeq(rows, LAMBDA r : r.city \in Range(sel.selected_city))
    IN IF All \in Range(sel.selected_agency) THEN byCity
       ELSE SelectSeq(byCity, LAMBDA r : r.agency_name \in Range(sel.selected_agency))

----------------------------------------------------------------------------
(* The uploaded files *)

\* Most rows of an uploaded full-width file.
MaxCoverageRows == 2

MaxRateRows == 2

Austin == << "A", "u", "s", "t", "i", "n" >>
AUSTIN == << "A", "U", "S", "T", "I", "N" >>
Austn  == << "A", "u", "s", "t", "n" >>
Denver == << "D", "e", "n", "v", "e", "r" >>

AbcCo    == << "A", "B", "C", " ", "C", "o" >>
AbcCoDot == << "A", "b", "c", " ", "C", "o", "." >>
AgencyX  == << "X" >>

Chef == << "C", "h", "e", "f" >>

Ten      == << "1", "0" >>
Twenty   == << "2", "0" >>
NotANumber == << "n", "/", "a" >>

CoverageRow(a, c, role) == [agency_name |-> a, city |-> c, role_category |-> role]

RateRow(a, c, m) == [agency_name |-> a, venue_city |-> c, agency_margin |-> m]

\* Rows of the coverage file: the rows of the specification's scenarios, with
\* a second spelling of a city, a missing role and a missing city.
CoverageRows ==
    { CoverageRow(AbcCo, Austin, Chef),
      CoverageRow(AgencyX, Austin, NaN),
      CoverageRow(AgencyX, AUSTIN, Chef),
      CoverageRow(AgencyX, Denver, Chef),
      CoverageRow(AgencyX, NaN, Chef) }

\* Rows of the rate-card file: two spellings of one agency in one city, a
\* misspelling of that city, another city and a missing agency.
RateRows ==
    { RateRow(AbcCo, Austin, Ten),
      RateRow(AbcCoDot, Austin, Twenty),
      RateRow(AgencyX, Austn, Ten),
      RateRow(AgencyX, Denver, Ten),
      RateRow(NaN, Austin, Ten) }

\* Further rows, of the one-row files: a missing agency; a margin that is no
\* number and a missing city.
MoreCoverageRows == { CoverageRow(NaN, Austin, Chef) }

MoreRateRows ==
    { RateRow(AbcCo, Austin, NotANumber), RateRow(AbcCo, NaN, Ten) }

CoverageColumns == { "agency_name", "city", "role_category" }

RateColumns == { "agency_name", "venue_city", "agency_margin" }

\* The rows of a file that has only the columns cols.
Project(rows, cols) == { [c \in cols |-> r[c]] : r \in rows }

Tables(rows, n) == UNION { [1..k -> rows] : k \in 0..n }

Files(rows, columnSets, n) ==
    UNION { { [supplied |-> TRUE, columns |-> cols, rows |-> t] :
                t \in Tables(Project(rows, cols), n) } : cols \in columnSets }

\* Both files with every column, up to the row bounds.
FullFiles(a, r) ==
    /\ a \in Files(CoverageRows, { CoverageColumns }, MaxCoverageRows)
    /\ r \in Files(RateRows, { RateColumns }, MaxRateRows)

\* Any pair of files, supplied or not, with any of the columns, of at most
\* one row.
SmallFiles(a, r) ==
    /\ a \in Files(CoverageRows \cup MoreCoverageRows, SUBSET CoverageColumns, 1)
              \cup { NoFile }
    /\ r \in Files(RateRows \cup MoreRateRows, SUBSET RateColumns, 1)
              \cup { NoFile }

----------------------------------------------------------------------------
(* The script, section by section *)

Init ==
    /\ pc = "upload"
    /\ \/ FullFiles(agency_file, ratecard_file)
       \/ SmallFiles(agency_file, ratecard_file)
    /\ agency_df = << >>
    /\ ratecard_df = << >>
    /\ message = NoMessage
    /\ coverage_cities = << >>
    /\ agency_city_spine = << >>
    /\ spine_rates = << >>
    /\ final = << >>
    /\ selection = NoSelection
    /\ df = << >>
    /\ export = NoExport
    /\ val = << >>
    /\ choices = << >>
    /\ ret = << >>

helperVars == << val, choices, ret >>

\* Lines 49-51.  A variant that asks for one file only.
files_missing_either(a, r) == ~a.supplied /\ ~r.supplied

files_missing(a, r) == ~a.supplied \/ ~r.supplied

\* Lines 46-51: both files or st.info and st.stop().
UploadCheck ==
    /\ pc = "upload"
    /\ IF files_missing(agency_file, ratecard_file)
       THEN /\ message' = [kind |-> "info", source |-> "", missing |-> << >>]
            /\ pc' = "stopped"
       ELSE /\ pc' = "load"
            /\ UNCHANGED message
    /\ UNCHANGED << agency_file, ratecard_file, agency_df, ratecard_df,
                    coverage_cities, agency_city_spine, spine_rates, final,
                    selection, df, export, helperVars >>

required_agency_cols == << "agency_name", "city" >>

required_ratecard_cols == << "agency_name", "venue_city", "agency_margin" >>

\* Lines 63 and 66: [c for c in required if c not in df.columns].
missing_cols(required, columns) == SelectSeq(required, LAMBDA c : c \notin columns)

\* Lines 56-73: the files are read; a missing required column gives st.error
\* with the list of the missing columns of that file, and st.stop().
LoadAndCheckColumns ==
    /\ pc = "load"
    /\ agency_df' = agency_file.rows
    /\ ratecard_df' = ratecard_file.rows
    /\ LET missing_agency   == missing_cols(required_agency_cols, agency_file.columns)
           missing_ratecard == missing_cols(required_ratecard_cols, ratecard_file.columns)
       IN IF missing_agency # << >>
          THEN /\ message' = [kind |-> "error", source |-> "Agency Coverage CSV",
                              missing |-> missing_agency]
               /\ pc' = "stopped"
          ELSE IF missing_ratecard # << >>
          THEN /\ message' = [kind |-> "error", source |-> "Rate Card CSV",
                              missing |-> missing_ratecard]
               /\ pc' = "stopped"
          ELSE /\ pc' = "prepare"
               /\ UNCHANGED message
    /\ UNCHANGED << agency_file, ratecard_file, coverage_cities,
                    agency_city_spine, spine_rates, final, selection, df,
                    export, helperVars >>

\* Lines 78-100: optional columns, numeric margins, cleaned names.
PrepareColumns ==
    /\ pc = "prepare"
    /\ agency_df' =
          clean_agency_df(with_role_category(agency_df, agency_file.columns))
    /\ ratecard_df' = clean_ratecard_df(numeric_margins(ratecard_df))
    /\ pc' = "match"
    /\ UNCHANGED << agency_file, ratecard_file, message, coverage_cities,
                    agency_city_spine, spine_rates, final, selection, df,
                    export, helperVars >>

\* Lines 113-116: each rate-card city key resolved against the coverage keys.
FuzzyMatchCities ==
    /\ pc = "match"
    /\ coverage_cities' = coverage_city_pool(agency_df)
    /\ ratecard_df' = match_cities(ratecard_df, coverage_city_pool(agency_df))
    /\ pc' = "spine"
    /\ UNCHANGED << agency_file, ratecard_file, agency_df, message,
                    agency_city_spine, spine_rates, final, selection, df,
                    export, helperVars >>

\* Lines 121-135.
BuildSpine ==
    /\ pc = "spine"
    /\ agency_city_spine' = build_spine(ratecard_df, agency_df)
    /\ pc' = "rates"
    /\ UNCHANGED << agency_file, ratecard_file, agency_df, ratecard_df, message,
                    coverage_cities, spine_rates, final, selection, df, export,
                    helperVars >>

\* Lines 140-146.
AttachRateCards ==
    /\ pc = "rates"
    /\ spine_rates' = attach_rates(agency_city_spine, ratecard_df)
    /\ pc' = "coverage"
    /\ UNCHANGED << agency_file, ratecard_file, agency_df, ratecard_df, message,
                    coverage_cities, agency_city_spine, final, selection, df,
                    export, helperVars >>

\* Lines 151-157.
AttachCoverage ==
    /\ pc = "coverage"
    /\ final' = attach_coverage(spine_rates, agency_df)
    /\ pc' = "presence"
    /\ UNCHANGED << agency_file, ratecard_file, agency_df, ratecard_df, message,
                    coverage_cities, agency_city_spine, spine_rates, selection,
                    df, export, helperVars >>

\* Lines 162-174.
PresenceType ==
    /\ pc = "presence"
    /\ final' = [i \in 1..Len(final) |-> WithPresence(final[i])]
    /\ pc' = "averages"
    /\ UNCHANGED << agency_file, ratecard_file, agency_df, ratecard_df, message,
                    coverage_cities, agency_city_spine, spine_rates, selection,
                    df, export, helperVars >>

\* Lines 179-186.
CityAverages ==
    /\ pc = "averages"
    /\ final' = [i \in 1..Len(final) |-> WithCityAvg(final, final[i])]
    /\ pc' = "sidebar"
    /\ UNCHANGED << agency_file, ratecard_file, agency_df, ratecard_df, message,
                    coverage_cities, agency_city_spine, spine_rates, selection,
                    df, export, helperVars >>

Views == { "Coverage View", "Agency View", "City View", "Client View" }

\* The options of the two multiselects (lines 195-200); the user picks "All"
\* or one of the names.
CityOptions(rows) == { All } \cup { rows[i].city : i \in 1..Len(rows) }

AgencyOptions(rows) ==
    { All } \cup { rows[i].agency_name : i \in 1..Len(rows) }

\* Lines 191-327: the user's view and filters, the filtered copy of final,
\* the selected view rendered from it, and the export button given it as
\* CSV.  The user takes one of the views with no filter, or the coverage view
\* with one filter.
ViewsAndExport ==
    /\ pc = "sidebar"
    /\ \E v \in Views, c \in CityOptions(final), a \in AgencyOptions(final) :
          /\ ~(c # All /\ a # All)
          /\ ~(v # "Coverage View" /\ (c # All \/ a # All))
          /\ selection' = [view |-> v, selected_city |-> << c >>,
                           selected_agency |-> << a >>]
          /\ df' = apply_filters(final, selection')
          /\ export' = [done |-> TRUE, rows |-> df']
    /\ pc' = "done"
    /\ UNCHANGED << agency_file, ratecard_file, agency_df, ratecard_df, message,
                    coverage_cities, agency_city_spine, spine_rates, final,
                    helperVars >>

Next ==
    \/ UploadCheck
    \/ LoadAndCheckColumns
    \/ PrepareColumns
    \/ FuzzyMatchCities
    \/ BuildSpine
    \/ AttachRateCards
    \/ AttachCoverage
    \/ PresenceType
    \/ CityAverages
    \/ ViewsAndExport

Spec == Init /\ [][Next]_vars

----------------------------------------------------------------------------
(* Properties of the helpers *)

\* The characters of a canonical key, [a-z0-9].
KeyChars ==
    { "a", "b", "c", "d", "e", "f", "g", "h", "i", "j", "k", "l", "m", "n",
      "o", "p", "q", "r", "s", "t", "u", "v", "w", "x", "y", "z",
      "0", "1", "2", "3", "4", "5", "6", "7", "8", "9" }

\* C9: clean_name is idempotent: the key of a key is that key, for every
\* display name, the missing value and the empty string included.  A missing
\* name gives the empty key, and a key holds only characters of [a-z0-9].
C9_CleanNameIdempotent ==
    /\ Len(ret) >= 1 =>
          /\ isna(val) => ret[1] = << >>
          /\ \A i \in 1..Len(ret[1]) : ret[1][i] \in KeyChars
    /\ Len(ret) = 2 => ret[2] = ret[1]

\* A name with an upper-case letter, a space and punctuation has been
\* normalised twice.
C9_Witness ==
    /\ pc = "clean_name"
    /\ Len(ret) = 2
    /\ ~isna(val)
    /\ { "B", " ", "-" } \subseteq Range(val)
    /\ ret[2] = << "b" >>

\* Candidate i has the top score for name, and is the first to have it.
FirstTop(name, pool, i) ==
    /\ \A j \in 1..Len(pool) :
          ~ScoreGT(ratio(name, pool[j]), ratio(name, pool[i]))
    /\ \A j \in 1..(i - 1) :
          ScoreGT(ratio(name, pool[i]), ratio(name, pool[j]))

\* C6: fuzzy_match(name, pool) is the pool member with the highest score if
\* that score is at least 85 and None otherwise; of several members with the
\* top score it is the first in pool order; an empty name or an empty pool
\* gives None; the result is None or a member of the pool.  "austn" against
\* ["austin", "dallas"] gives "austin", against ["houston", "dallas"] None.
C6_FuzzyMatchBestAboveThreshold ==
    pc = "returned" =>
        LET r == ret[1] IN
        /\ (val = << >> \/ choices = << >>) => isna(r)
        /\ isna(r) \/ r \in Range(choices)
        /\ (val # << >> /\ choices # << >>) =>
              \A i \in 1..Len(choices) :
                 FirstTop(val, choices, i) =>
                    r = IF ratio(val, choices[i]).num >= 85 * ratio(val, choices[i]).den
                        THEN choices[i] ELSE NaN
        /\ (val = austn /\ choices = << austin, dallas >>) => r = austin
        /\ (val = austn /\ choices = << houston, dallas >>) => isna(r)

\* Two different candidates share an accepted top score and the first was
\* returned.
C6_Witness ==
    /\ pc = "returned"
    /\ Len(choices) = 2
    /\ choices[1] # val
    /\ ratio(val, choices[1]) = ratio(val, choices[2])
    /\ ScoreGE(ratio(val, choices[1]), 85)
    /\ ret[1] = choices[1]

----------------------------------------------------------------------------
(* Properties of the pipeline *)

SpineBuilt == pc \in { "rates", "coverage", "presence", "averages", "sidebar", "done" }

Enriched == pc \in { "averages", "sidebar", "done" }

Averaged == pc \in { "sidebar", "done" }

\* The rows that may anchor a spine entry, as (key pair, display names), rate
\* card first: a rate-card row with an agency name and a resolved city, under
\* the resolved city key; a coverage row with an agency name and a city.
RateAnchors ==
    LET kept == SelectSeq(ratecard_df,
                    LAMBDA r : ~isna(r.agency_name) /\ ~isna(r.coverage_city_clean))
    IN [i \in 1..Len(kept) |->
          [agency_clean |-> kept[i].agency_clean,
           city_clean |-> kept[i].coverage_city_clean,
           agency_name |-> kept[i].agency_name, city |-> kept[i].venue_city]]

CoverageAnchors ==
    LET kept == SelectSeq(agency_df,
                    LAMBDA r : ~isna(r.agency_name) /\ ~isna(r.city))
    IN [i \in 1..Len(kept) |->
          [agency_clean |-> kept[i].agency_clean, city_clean |-> kept[i].city_clean,
           agency_name |-> kept[i].agency_name, city |-> kept[i].city]]

Anchors == RateAnchors \o CoverageAnchors

KeyPair(r) == << r.agency_clean, r.city_clean >>

\* C1: the spine holds no (agency key, city key) pair twice: it has as many
\* entries as distinct pairs; and the entry of a pair carries the display
\* names of the first row seen for the pair, rate-card rows before coverage
\* rows.
C1_SpinePairsUnique ==
    SpineBuilt =>
        /\ Len(agency_city_spine)
             = Cardinality({ KeyPair(agency_city_spine[i]) :
                               i \in 1..Len(agency_city_spine) })
        /\ \A i \in 1..Len(agency_city_spine) :
              \E k \in 1..Len(Anchors) :
                 /\ KeyPair(Anchors[k]) = KeyPair(agency_city_spine[i])
                 /\ \A j \in 1..(k - 1) : KeyPair(Anchors[j]) # KeyPair(Anchors[k])
                 /\ agency_city_spine[i].agency_name = Anchors[k].agency_name
                 /\ agency_city_spine[i].city = Anchors[k].city

\* Two rows with one key pair and different display names were seen, and the
\* spine keeps the pair once.
C1_Witness ==
    /\ SpineBuilt
    /\ \E j, k \in 1..Len(Anchors) :
          /\ j < k
          /\ KeyPair(Anchors[j]) = KeyPair(Anchors[k])
          /\ Anchors[j].agency_name # Anchors[k].agency_name
    /\ Len(agency_city_spine) < Len(Anchors)
    /\ Len(agency_city_spine) >= 2

\* C2: the spine is the union of the sources: every coverage row and every
\* rate-card row left by the ingestion that has an agency name and a city
\* name has a spine entry for its pair, a rate-card row whose city resolves to
\* no coverage city included (under its own city key).
C2_SpineIsUnion ==
    SpineBuilt =>
        /\ \A i \in 1..Len(agency_df) :
              (~isna(agency_df[i].agency_name) /\ ~isna(agency_df[i].city)) =>
                 \E e \in Range(agency_city_spine) :
                    KeyPair(e) = KeyPair(agency_df[i])
        /\ \A i \in 1..Len(ratecard_df) :
              (~isna(ratecard_df[i].agency_name) /\ ~isna(ratecard_df[i].venue_city)) =>
                 \E e \in Range(agency_city_spine) :
                    /\ e.agency_clean = ratecard_df[i].agency_clean
                    /\ e.city_clean =
                         IF isna(ratecard_df[i].coverage_city_clean)
                         THEN ratecard_df[i].city_clean
                         ELSE ratecard_df[i].coverage_city_clean

\* The four cases of presence_type, by the two null flags.
PresenceTable(marginIsNull, roleIsNull) ==
    CASE ~marginIsNull /\ ~roleIsNull -> "Rate Card + Coverage"
      [] ~marginIsNull /\ roleIsNull  -> "Rate Card Only"
      [] marginIsNull /\ ~roleIsNull  -> "Coverage Only"
      [] marginIsNull /\ roleIsNull   -> "Unknown"

\* C3: in every enriched row presence_type is the value the four-case table
\* gives for (agency_margin is null, role_category is null), so one of four
\* values, the same for rows with the same flags.
C3_PresenceTypeTable ==
    Enriched =>
        \A i \in 1..Len(final) :
           final[i].presence_type
             = PresenceTable(final[i].agency_margin = NaNF,
                             isna(final[i].role_category))

\* The enriched table holds rows of three of the cases at once.
C3_Witness ==
    /\ Enriched
    /\ Cardinality({ final[i].presence_type : i \in 1..Len(final) }) >= 3

\* A coverage row with an agency name and a city whose pair is the pair of no
\* rate-card row, by the row's own or its resolved city key.
CoverageOnlyRow(c) ==
    /\ ~isna(c.agency_name)
    /\ ~isna(c.city)
    /\ \A k \in 1..Len(ratecard_df) :
          ~ /\ ratecard_df[k].agency_clean = c.agency_clean
            /\ c.city_clean \in { ratecard_df[k].city_clean,
                                  ratecard_df[k].coverage_city_clean }

\* C4 as stated: every such coverage row has an enriched row, and the
\* enriched rows of its pair have presence_type "Coverage Only" and no margin,
\* whatever the role_category.
C4_CoverageOnlyAlways ==
    Enriched =>
        \A i \in 1..Len(agency_df) :
           CoverageOnlyRow(agency_df[i]) =>
              /\ \E f \in Range(final) : KeyPair(f) = KeyPair(agency_df[i])
              /\ \A f \in Range(final) :
                    KeyPair(f) = KeyPair(agency_df[i]) =>
                       /\ f.presence_type = "Coverage Only"
                       /\ f.agency_margin = NaNF

\* C4, amended: every such coverage row has an enriched row that carries its
\* role_category, with no margin, and with presence_type "Coverage Only"
\* when the role_category is not null and "Unknown" when it is null (a
\* missing value or a back-filled column); no enriched row of the pair has a
\* margin.
C4_CoverageOnlyWhenRoleKnown ==
    Enriched =>
        \A i \in 1..Len(agency_df) :
           CoverageOnlyRow(agency_df[i]) =>
              /\ \E f \in Range(final) :
                    /\ KeyPair(f) = KeyPair(agency_df[i])
                    /\ f.agency_name_coverage = agency_df[i].agency_name
                    /\ f.city_coverage = agency_df[i].city
                    /\ f.role_category = agency_df[i].role_category
                    /\ f.agency_margin = NaNF
                    /\ f.presence_type =
                         IF isna(agency_df[i].role_category)
                         THEN "Unknown" ELSE "Coverage Only"
              /\ \A f \in Range(final) :
                    KeyPair(f) = KeyPair(agency_df[i]) =>
                       /\ f.agency_margin = NaNF
                       /\ f.presence_type \in { "Coverage Only", "Unknown" }

\* A coverage file without a role_category column gave a coverage-only row,
\* beside a rate-card row of another pair.
C4_Witness ==
    /\ pc = "done"
    /\ "role_category" \notin agency_file.columns
    /\ Len(ratecard_df) >= 1
    /\ \E i \in 1..Len(agency_df) :
          /\ CoverageOnlyRow(agency_df[i])
          /\ \E f \in Range(final) :
                /\ KeyPair(f) = KeyPair(agency_df[i])
                /\ f.presence_type = "Unknown"

\* C5: the exported table has one row for each (agency key, city key), and
\* the row's agency_margin is the mean of the margins of the rate-card rows
\* of that pair.
C5_OneRowPerAgencyCity ==
    pc = "done" =>
        \A i \in 1..Len(export.rows) :
           /\ \A j \in 1..Len(export.rows) :
                 KeyPair(export.rows[j]) = KeyPair(export.rows[i]) => j = i
           /\ LET mine == SelectSeq(ratecard_df,
                              LAMBDA r : /\ ~isna(r.agency_name)
                                         /\ r.agency_clean = export.rows[i].agency_clean
                                         /\ r.city_clean = export.rows[i].city_clean)
              IN mine # << >> =>
                    export.rows[i].agency_margin
                      = FMean([k \in 1..Len(mine) |-> mine[k].agency_margin])

\* The missing required columns of each file.
MissingOf(required, file) == { c \in required : c \notin file.columns }

MissingCoverage == MissingOf({ "agency_name", "city" }, agency_file)

MissingRate == MissingOf({ "agency_name", "venue_city", "agency_margin" }, ratecard_file)

NoFileMissing == agency_file.supplied /\ ratecard_file.supplied

NothingProduced ==
    /\ agency_city_spine = << >>
    /\ spine_rates = << >>
    /\ final = << >>
    /\ df = << >>
    /\ selection = NoSelection
    /\ export = NoExport

\* C7: with a file not supplied, or a required column missing from a supplied
\* file, the run stops at the check with a message and produces no spine, no
\* enriched table, no view and no export; the message of a missing-column
\* stop names every missing required column of the file it is about; with
\* both files and all required columns the run does not stop there.
C7_HaltsBeforeAnyOutput ==
    /\ ~NoFileMissing =>
          /\ pc \in { "upload", "stopped" }
          /\ NothingProduced
          /\ pc = "stopped" => message.kind = "info"
    /\ (NoFileMissing /\ (MissingCoverage # { } \/ MissingRate # { })) =>
          /\ pc \in { "upload", "load", "stopped" }
          /\ NothingProduced
          /\ pc = "stopped" =>
                /\ message.kind = "error"
                /\ message.source \in { "Agency Coverage CSV", "Rate Card CSV" }
                /\ message.source = "Agency Coverage CSV" =>
                      /\ MissingCoverage # { }
                      /\ Range(message.missing) = MissingCoverage
                /\ message.source = "Rate Card CSV" =>
                      /\ MissingRate # { }
                      /\ Range(message.missing) = MissingRate
    /\ (NoFileMissing /\ MissingCoverage = { } /\ MissingRate = { }) =>
          /\ pc # "stopped"
          /\ message = NoMessage
    /\ pc \in { "upload", "load" } => message = NoMessage /\ NothingProduced

\* The run stopped on a file that lacks two required columns or more.
C7_Witness ==
    /\ pc = "stopped"
    /\ message.kind = "error"
    /\ Len(message.missing) >= 2
    /\ Len(agency_file.rows) + Len(ratecard_file.rows) >= 1

\* The margins of the enriched rows of a city, cities being the same when
\* their names have the same canonical key.
MarginsOfCity(city) ==
    LET rows == SelectSeq(final, LAMBDA g : clean_name(g.city) = clean_name(city))
    IN [k \in 1..Len(rows) |-> rows[k].agency_margin]

\* C8: city_avg_margin of an enriched row is the mean of the non-null
\* margins of the enriched rows of its city (names with one canonical key are
\* one city), rows without a margin included; margin_vs_city_avg is the
\* margin minus that average, and is null exactly when the margin is.
C8_CityAverageByCanonicalCity ==
    Averaged =>
        \A i \in 1..Len(final) :
           /\ final[i].city_avg_margin = FMean(MarginsOfCity(final[i].city))
           /\ final[i].margin_vs_city_avg
                = FSub(final[i].agency_margin, final[i].city_avg_margin)
           /\ (final[i].margin_vs_city_avg = NaNF) <=> (final[i].agency_margin = NaNF)

\* C10: every rate-card row left by the ingestion that has an agency name
\* and a resolved city has an enriched row, of its agency key and resolved
\* city key, whose agency_margin is the row's margin.
C10_RateCardMarginAttached ==
    Enriched =>
        \A k \in 1..Len(ratecard_df) :
           (~isna(ratecard_df[k].agency_name)
              /\ ~isna(ratecard_df[k].coverage_city_clean)) =>
                 \E f \in Range(final) :
                    /\ f.agency_clean = ratecard_df[k].agency_clean
                    /\ f.city_clean = ratecard_df[k].coverage_city_clean
                    /\ f.agency_margin = ratecard_df[k].agency_margin

====
